---------------------------- MODULE Spec2Model ----------------------------
(***************************************************************************)
(* Coach Majen agent service: the task executors of agents_pkg/tools.py    *)
(* over the record store of agents_pkg/db.py, and the turn of main.py.     *)
(*                                                                         *)
(* A table is a sequence of rows in insertion order; a row is a record.    *)
(* Every store call takes an input `ok`: whether the store was reachable   *)
(* and accepted the call.  The db.py helpers swallow a failed call, the    *)
(* direct get_db() chains of tools.py let it raise.                        *)
(***************************************************************************)
EXTENDS Integers, Sequences, FiniteSets, TLC

VARIABLES
    weight_entries,           \* table WEIGHT_ENTRIES: [user_id, date, kg]
    meal_logs,                \* table MEAL_LOGS
    training_plan_versions,   \* table TRAINING_PLAN_VERSIONS: [user_id, version, days]
    nutrition_plan_versions,  \* table NUTRITION_PLAN_VERSIONS
    goals,                    \* table GOALS: [user_id, version, is_current, ...]
    user_profiles,            \* table USER_PROFILES: one row per user
    user_context,             \* table USER_CONTEXT: [user_id, key, value]
    change_events,            \* table CHANGE_EVENTS: [user_id, type, version]
    workout_logs,             \* table WORKOUT_LOGS: [user_id, date, entries]
    frame,                    \* per worker: the executor call in flight, its
                              \* position and its locals
    ret,                      \* what the step just taken returned to its caller
    faulted,                  \* history: some store call of this behaviour has failed
    calls,                    \* history: the mutating executor calls made so far
    turn                      \* the /chat turn in flight, or its response

tables == <<weight_entries, meal_logs, training_plan_versions,
            nutrition_plan_versions, goals, user_profiles, user_context,
            change_events, workout_logs>>
vars == <<tables, frame, ret, faulted, calls, turn>>

-----------------------------------------------------------------------------
(* Bounds of the model *)

\* today_str(): the day the calls run on
Today == 2
\* mutating executor calls offered in one behaviour
MaxCalls == 3

Users == {"u1", "u2"}
\* the turns (processes) that may run executors at the same time
Workers == {"w1", "w2"}
Idle == [pc |-> "idle"]
\* the step just taken returned nothing: its call is still in flight
Pending == [op |-> "pending"]
\* the dates a call may name: yesterday and today
Dates == {Today - 1, Today}
\* log_date = "" (falsy): the executor takes today_str() instead
NoDate == 0
None == "None"
\* SQL NULL in a numeric column (the numbers of the model are not negative)
Null == 0 - 1

-----------------------------------------------------------------------------
(* db.py: the generic helpers *)

\* a conflict on the user alone
ConflictsOnUser(table, row, keys) ==
    {i \in 1..Len(table) : table[i].user_id = row.user_id}

\* the positions of the rows of `table` that agree with `row` on the columns `keys`
Conflicts(table, row, keys) ==
    {i \in 1..Len(table) :
        \A k \in keys : k \in DOMAIN table[i] /\ table[i][k] = row[k]}

\* an update that replaces the whole row
MergeReplaces(old, row) == row

\* ON CONFLICT (keys) DO UPDATE: the columns of `row` overwrite, the others stay
Merge(old, row) ==
    [f \in (DOMAIN old) \cup (DOMAIN row) |->
        IF f \in DOMAIN row THEN row[f] ELSE old[f]]

\* an upsert that inserts a second row instead of overwriting the first
UpsertAccumulates(table, row, keys) == Append(table, row)

\* table.upsert(row, on_conflict=keys) on a table with a unique key on `keys`
Upsert(table, row, keys) ==
    LET c == Conflicts(table, row, keys)
    IN  IF c = {}
        THEN Append(table, row)
        ELSE [i \in 1..Len(table) |->
                IF i \in c THEN Merge(table[i], row) ELSE table[i]]

\* upsert_row: the table after the call; a failed call is logged and swallowed
upsert_row(table, row, on_conflict, ok) ==
    IF ok THEN Upsert(table, row, on_conflict) ELSE table

\* an insert that overwrites the last row of the table instead of adding one
insert_row_in_place(table, row, ok) ==
    IF ~ok THEN table
    ELSE IF table = <<>> THEN <<row>>
    ELSE [table EXCEPT ![Len(table)] = row]

\* insert_row: the table after the call; a failed call is logged and swallowed
insert_row(table, row, ok) ==
    IF ok THEN Append(table, row) ELSE table

\* the rows of `s` at the positions in `idx`, order kept
RECURSIVE Pick(_, _, _)
Pick(s, idx, n) ==
    IF n = 0 THEN <<>>
    ELSE IF n \in idx THEN Append(Pick(s, idx, n - 1), s[n])
    ELSE Pick(s, idx, n - 1)

\* q.eq(k, v) for every filter: the rows that carry every filtered value
Matching(table, filters) ==
    Pick(table,
         {i \in 1..Len(table) :
            \A k \in DOMAIN filters :
                k \in DOMAIN table[i] /\ table[i][k] = filters[k]},
         Len(table))

\* q.limit(n)
Limit(rows, n) == SubSeq(rows, 1, IF Len(rows) < n THEN Len(rows) ELSE n)

\* the default limit of find_many
FindLimit == 50

\* find_many: the matching rows in insertion (created_at) order; [] on failure
find_many(table, filters, ok) ==
    IF ok THEN Limit(Matching(table, filters), FindLimit) ELSE <<>>

\* find_one (limit(1).maybe_single()): the first matching row as <<row>>,
\* and <<>> for the None it returns when there is none or the call failed
find_one(table, filters, ok) ==
    IF ok THEN Limit(Matching(table, filters), 1) ELSE <<>>

\* the versions stored for a user
Versions(table, user_id) ==
    {table[i].version : i \in {j \in 1..Len(table) : table[j].user_id = user_id}}

Max(S) == CHOOSE x \in S : \A y \in S : y <= x

\* a next version that counts the rows of every user
next_version_unscoped(table, user_id, ok) == Len(table) + 1

\* next_version: 1 + the highest stored version, 1 with no row, 1 on failure
next_version(table, user_id, ok) ==
    IF ok /\ Versions(table, user_id) # {}
    THEN Max(Versions(table, user_id)) + 1
    ELSE 1

\* order("version", desc=True).limit(1): a row of the user's highest version
LatestRows(table, user_id) ==
    {i \in 1..Len(table) :
        /\ table[i].user_id = user_id
        /\ table[i].version = Max(Versions(table, user_id))}

-----------------------------------------------------------------------------
(* tools.py: weight *)

MinKg == 20
MaxKg == 500
\* the weights offered to log_weight: both edges of the range and both sides
KgValues == {MinKg - 1, MinKg, MaxKg, MaxKg + 1}
\* the weights get_user_stats shows
RecentLimit == 5
\* the default `days` of get_weight_history
DefaultDays == 30
DaysValues == {0, DefaultDays}

\* a ChangeEvent row; "summary" and "actor" are fixed text and left out,
\* version is the "after.version" of a plan save and 0 for the other events
ChangeEvent(user_id, type, version) ==
    [user_id |-> user_id, type |-> type, version |-> version]

\* mutating calls are offered while the behaviour is below its bound
Room == calls < MaxCalls

\* a validation that forgot the upper edge
WeightRejectedBelowOnly(kg) == kg < MinKg

\* the validation of log_weight
WeightRejected(kg) == kg < MinKg \/ kg > MaxKg

\* log_weight
LogWeight(user_id, kg, log_date, okUpsert, okEvent) ==
    LET d == IF log_date = NoDate THEN Today ELSE log_date
    IN  /\ Room
        /\ calls' = calls + 1
        /\ IF WeightRejected(kg)
           THEN /\ ret' = [op |-> "log_weight", user_id |-> user_id, kg |-> kg,
                           date |-> d, success |-> FALSE, write |-> "none"]
                /\ UNCHANGED <<tables, faulted>>
           ELSE /\ weight_entries' = upsert_row(weight_entries,
                       [user_id |-> user_id, date |-> d, kg |-> kg],
                       {"user_id", "date"}, okUpsert)
                /\ change_events' = insert_row(change_events,
                       ChangeEvent(user_id, "WEIGHT_LOG", 0), okEvent)
                /\ ret' = [op |-> "log_weight", user_id |-> user_id, kg |-> kg,
                           date |-> d, success |-> TRUE,
                           write |-> IF okUpsert THEN "ok" ELSE "failed"]
                /\ faulted' = (faulted \/ ~okUpsert \/ ~okEvent)
                /\ UNCHANGED <<workout_logs, meal_logs, training_plan_versions,
                               nutrition_plan_versions, goals,
                               user_profiles, user_context>>
        /\ UNCHANGED frame

\* order("date", desc=False), rows of one date in insertion order
RECURSIVE OrderByDate(_)
OrderByDate(rows) ==
    IF rows = <<>> THEN <<>>
    ELSE LET r == rows[Len(rows)]
             sorted == OrderByDate(SubSeq(rows, 1, Len(rows) - 1))
             k == Cardinality({i \in 1..Len(sorted) : sorted[i].date <= r.date})
         IN  SubSeq(sorted, 1, k) \o <<r>> \o SubSeq(sorted, k + 1, Len(sorted))

\* the user's weight rows among the positions `idx`, by date ascending, the
\* columns "date, kg"
WeightsByDate(idx) ==
    LET sorted == OrderByDate(Pick(weight_entries, idx, Len(weight_entries)))
    IN  [i \in 1..Len(sorted) |-> [date |-> sorted[i].date, kg |-> sorted[i].kg]]

\* the rows get_weight_history selects: the user's, dated start or later
HistoryRows(user_id, days) ==
    LET start == Today - days
    IN  WeightsByDate({i \in 1..Len(weight_entries) :
                        /\ weight_entries[i].user_id = user_id
                        /\ weight_entries[i].date >= start})

\* get_weight_history: the query is not guarded, a failed call raises
GetWeightHistory(user_id, days, ok) ==
    /\ ret' = IF ok
              THEN [op |-> "get_weight_history", user_id |-> user_id,
                    days |-> days, raised |-> FALSE,
                    entries |-> HistoryRows(user_id, days),
                    count |-> Len(HistoryRows(user_id, days))]
              ELSE [op |-> "get_weight_history", user_id |-> user_id,
                    days |-> days, raised |-> TRUE]
    /\ faulted' = (faulted \/ ~ok)
    /\ UNCHANGED <<tables, frame, calls>>

-----------------------------------------------------------------------------
(* json.loads on the payload arguments (days_json, meals_json) *)

\* A JSON text is a sequence of tokens.  A parsed value is tagged with its
\* Python type: [t |-> "null"], [t |-> "bool", v], [t |-> "num", v],
\* [t |-> "str", v], [t |-> "list", v |-> <<values>>] and
\* [t |-> "dict", v |-> <<(key, value) pairs in insertion order>>].
NumTokens == {"0", "3", "4"}
StrTokens == {"''", "'day'", "'Mandag'", "'Onsdag'", "'exercises'", "'name'",
              "'Benkpress'", "'sets'", "'time'", "'items'", "'Frokost'"}

JNull == [t |-> "null"]
Failed == [ok |-> FALSE]
Parsed(val, next) == [ok |-> TRUE, val |-> val, next |-> next]

\* d[key] = val on a dict: a repeated key keeps its place and takes the new value
DictSet(pairs, key, val) ==
    IF \E i \in 1..Len(pairs) : pairs[i][1] = key
    THEN [i \in 1..Len(pairs) |->
            IF pairs[i][1] = key THEN <<key, val>> ELSE pairs[i]]
    ELSE Append(pairs, <<key, val>>)

RECURSIVE ParseValue(_, _), ParseElements(_, _, _), ParseMembers(_, _, _)

\* one JSON value starting at token i
ParseValue(toks, i) ==
    IF i > Len(toks) THEN Failed
    ELSE LET tok == toks[i]
         IN  CASE tok = "null" -> Parsed(JNull, i + 1)
               [] tok = "true" -> Parsed([t |-> "bool", v |-> TRUE], i + 1)
               [] tok = "false" -> Parsed([t |-> "bool", v |-> FALSE], i + 1)
               [] tok \in NumTokens -> Parsed([t |-> "num", v |-> tok], i + 1)
               [] tok \in StrTokens -> Parsed([t |-> "str", v |-> tok], i + 1)
               [] tok = "[" ->
                    IF i + 1 <= Len(toks) /\ toks[i + 1] = "]"
                    THEN Parsed([t |-> "list", v |-> <<>>], i + 2)
                    ELSE ParseElements(toks, i + 1, <<>>)
               [] tok = "{" ->
                    IF i + 1 <= Len(toks) /\ toks[i + 1] = "}"
                    THEN Parsed([t |-> "dict", v |-> <<>>], i + 2)
                    ELSE ParseMembers(toks, i + 1, <<>>)
               [] OTHER -> Failed

\* the elements of an array after "[" or ",", up to its "]"
ParseElements(toks, i, acc) ==
    LET e == ParseValue(toks, i)
    IN  IF ~e.ok \/ e.next > Len(toks) THEN Failed
        ELSE CASE toks[e.next] = "," ->
                    ParseElements(toks, e.next + 1, Append(acc, e.val))
               [] toks[e.next] = "]" ->
                    Parsed([t |-> "list", v |-> Append(acc, e.val)], e.next + 1)
               [] OTHER -> Failed

\* the members of an object after "{" or ",", up to its "}"
ParseMembers(toks, i, acc) ==
    IF i + 1 > Len(toks) \/ toks[i] \notin StrTokens \/ toks[i + 1] # ":"
    THEN Failed
    ELSE LET e == ParseValue(toks, i + 2)
         IN  IF ~e.ok \/ e.next > Len(toks) THEN Failed
             ELSE CASE toks[e.next] = "," ->
                         ParseMembers(toks, e.next + 1,
                                      DictSet(acc, toks[i], e.val))
                    [] toks[e.next] = "}" ->
                         Parsed([t |-> "dict", v |-> DictSet(acc, toks[i], e.val)],
                                e.next + 1)
                    [] OTHER -> Failed

\* json.loads: one value and nothing after it, or an exception (ok = FALSE)
JsonLoads(toks) ==
    LET r == ParseValue(toks, 1)
    IN  IF r.ok /\ r.next = Len(toks) + 1 THEN [ok |-> TRUE, val |-> r.val]
        ELSE Failed

\* bool(value) in Python
Truthy(val) ==
    CASE val.t = "null" -> FALSE
      [] val.t = "bool" -> val.v
      [] val.t = "num" -> val.v # "0"
      [] val.t = "str" -> val.v # "''"
      [] val.t \in {"list", "dict"} -> val.v # <<>>

\* the payload texts offered to the plan executors
OneDay == <<"[", "{", "'day'", ":", "'Mandag'", "}", "]">>
TwoDays ==
    <<"[", "{", "'day'", ":", "'Mandag'", ",", "'exercises'", ":",
           "[", "{", "'name'", ":", "'Benkpress'", ",", "'sets'", ":", "4", "}", "]",
           "}", ",",
           "{", "'day'", ":", "'Onsdag'", ",", "'exercises'", ":", "[", "]", "}",
      "]">>
OneMeal ==
    <<"[", "{", "'name'", ":", "'Frokost'", ",", "'items'", ":", "[", "]", "}", "]">>
EmptyList == <<"[", "]">>
Unclosed == <<"[", "{", "'day'", ":", "'Mandag'", "}">>
Trailing == <<"[", "]", "]">>
NullText == <<"null">>
ZeroText == <<"0">>
StringText == <<"'Mandag'">>
DictText == <<"{", "'day'", ":", "'Mandag'", "}">>
EmptyText == <<>>

DaysTexts == {OneDay, TwoDays, EmptyList, Unclosed, Trailing, NullText,
              ZeroText, StringText, DictText, EmptyText}
MealsTexts == {OneMeal, EmptyList, Unclosed, DictText}

-----------------------------------------------------------------------------
(* tools.py: meals *)

\* the macros (calories, protein_g, carbs_g, fat_g) offered to log_meal; the
\* first is the default of the four arguments
MacroValues == {<<0, 0, 0, 0>>, <<400, 30, 40, 15>>}

MealRow(user_id, d, macros) ==
    [user_id |-> user_id, date |-> d,
     total_calories |-> macros[1], total_protein_g |-> macros[2],
     total_carbs_g |-> macros[3], total_fat_g |-> macros[4]]

\* log_meal: no validation; the row is inserted, never upserted; "meal_type",
\* "description" and "items" are carried through unchanged and left out
LogMeal(user_id, macros, log_date, ok) ==
    LET d == IF log_date = NoDate THEN Today ELSE log_date
    IN  /\ Room
        /\ calls' = calls + 1
        /\ meal_logs' = insert_row(meal_logs, MealRow(user_id, d, macros), ok)
        /\ ret' = [op |-> "log_meal", user_id |-> user_id, date |-> d,
                   macros |-> macros, success |-> TRUE,
                   write |-> IF ok THEN "ok" ELSE "failed"]
        /\ faulted' = (faulted \/ ~ok)
        /\ UNCHANGED <<workout_logs, weight_entries, training_plan_versions,
                       nutrition_plan_versions, goals, user_profiles,
                       user_context, change_events, frame>>

\* m.get(key, 0) or 0
MacroOf(m, key) ==
    LET v == IF key \in DOMAIN m THEN m[key] ELSE 0
    IN  IF v = Null THEN 0 ELSE v

\* the loop of get_today_nutrition over the rows it was given
RECURSIVE SumMacro(_, _)
SumMacro(meals, key) ==
    IF meals = <<>> THEN 0
    ELSE SumMacro(SubSeq(meals, 1, Len(meals) - 1), key)
            + MacroOf(meals[Len(meals)], key)

\* the rows get_today_nutrition reads: find_many with its default limit
TodayMeals(user_id, ok) ==
    find_many(meal_logs, [user_id |-> user_id, date |-> Today], ok)

\* get_today_nutrition
GetTodayNutrition(user_id, ok) ==
    LET meals == TodayMeals(user_id, ok)
    IN  /\ ret' = [op |-> "get_today_nutrition", user_id |-> user_id,
                   read |-> ok,
                   totals |-> [calories |-> SumMacro(meals, "total_calories"),
                               protein |-> SumMacro(meals, "total_protein_g"),
                               carbs |-> SumMacro(meals, "total_carbs_g"),
                               fat |-> SumMacro(meals, "total_fat_g")],
                   count |-> Len(meals)]
        /\ faulted' = (faulted \/ ~ok)
        /\ UNCHANGED <<tables, frame, calls>>

-----------------------------------------------------------------------------
(* tools.py: training and nutrition plans *)

\* the calls in flight for a user, other than worker w's
OthersInFlight(w, user_id) ==
    {o \in Workers \ {w} : frame[o].pc # "idle" /\ frame[o].user_id = user_id}

\* worker w enters a call with the locals `f`; the call, and every call in
\* flight for the same user, is marked as overlapping when there is one
Enter(w, f) ==
    [o \in Workers |->
        IF o = w
        THEN f @@ [overlapped |-> OthersInFlight(w, f.user_id) # {}]
        ELSE IF o \in OthersInFlight(w, f.user_id)
        THEN [frame[o] EXCEPT !.overlapped = TRUE]
        ELSE frame[o]]

\* a validation that only asks for a list
DaysRejectedUnlessList(days) == days.t # "list"

\* "not days or not isinstance(days, list)"
DaysRejected(days) == ~Truthy(days) \/ days.t # "list"

\* save_training_plan up to its next_version: parse, validate, read the version
SaveTrainingPlanBegin(w, user_id, days_json, okRead) ==
    LET p == JsonLoads(days_json)
        refused(error) ==
            /\ ret' = [op |-> "save_training_plan", user_id |-> user_id,
                       days_json |-> days_json, success |-> FALSE,
                       error |-> error, write |-> "none"]
            /\ UNCHANGED <<tables, frame, faulted>>
    IN  /\ frame[w].pc = "idle"
        /\ Room
        /\ calls' = calls + 1
        /\ IF ~p.ok THEN refused("Ugyldig JSON")
           ELSE IF DaysRejected(p.val) THEN refused("minst 1 treningsdag")
           ELSE /\ frame' = Enter(w,
                        [pc |-> "save_training_plan", user_id |-> user_id,
                         days_json |-> days_json, days |-> p.val,
                         version |-> next_version(training_plan_versions,
                                                  user_id, okRead)])
                /\ ret' = Pending
                /\ faulted' = (faulted \/ ~okRead)
                /\ UNCHANGED tables

\* save_training_plan from its insert_row on: the plan row, the ChangeEvent,
\* the confirmation ("created_at" is the clock's and left out)
SaveTrainingPlanInsert(w, okInsert, okEvent) ==
    LET f == frame[w]
    IN  /\ f.pc = "save_training_plan"
        /\ training_plan_versions' = insert_row(training_plan_versions,
               [user_id |-> f.user_id, version |-> f.version, days |-> f.days],
               okInsert)
        /\ change_events' = insert_row(change_events,
               ChangeEvent(f.user_id, "TRAINING_PLAN_SAVED", f.version), okEvent)
        /\ ret' = [op |-> "save_training_plan", user_id |-> f.user_id,
                   days_json |-> f.days_json, success |-> TRUE,
                   version |-> f.version, days_count |-> Len(f.days.v),
                   overlapped |-> f.overlapped,
                   write |-> IF okInsert THEN "ok" ELSE "failed"]
        /\ frame' = [frame EXCEPT ![w] = Idle]
        /\ faulted' = (faulted \/ ~okInsert \/ ~okEvent)
        /\ UNCHANGED <<workout_logs, weight_entries, meal_logs, nutrition_plan_versions,
                       goals, user_profiles, user_context, calls>>

\* a read that takes the user's oldest version
OldestPlans(table, user_id) ==
    {[has_plan |-> TRUE, version |-> table[i].version, days |-> table[i].days] :
        i \in {j \in 1..Len(table) :
                /\ table[j].user_id = user_id
                /\ \A k \in 1..Len(table) :
                    table[k].user_id = user_id =>
                        table[j].version <= table[k].version}}

\* what get_current_training_plan may return from a table: the row of the
\* user's highest version (any of them when several carry it)
CurrentPlans(table, user_id) ==
    {[has_plan |-> TRUE, version |-> table[i].version, days |-> table[i].days] :
        i \in LatestRows(table, user_id)}

\* get_current_training_plan: the query is not guarded, a failed call raises;
\* with no row, maybe_single().execute() gives a response without data or,
\* in the client versions that return None, tp.data raises
GetCurrentTrainingPlan(user_id, ok, noneResponse) ==
    /\ \E r \in IF ~ok \/ (Versions(training_plan_versions, user_id) = {}
                             /\ noneResponse)
                THEN {[raised |-> TRUE]}
                ELSE IF Versions(training_plan_versions, user_id) = {}
                THEN {[raised |-> FALSE, has_plan |-> FALSE]}
                ELSE {[raised |-> FALSE] @@ c :
                        c \in CurrentPlans(training_plan_versions, user_id)} :
            ret' = [op |-> "get_current_training_plan", user_id |-> user_id] @@ r
    /\ faulted' = (faulted \/ ~ok)
    /\ UNCHANGED <<tables, frame, calls>>

\* the macro targets (kcal, protein_grams, carbs_grams, fat_grams) offered
TargetValues == {<<2800, 180, 310, 85>>}

\* "try: meals = json.loads(meals_json) / except: meals = []"
MealsOf(meals_json) ==
    IF JsonLoads(meals_json).ok THEN JsonLoads(meals_json).val
    ELSE [t |-> "list", v |-> <<>>]

\* save_nutrition_plan up to its next_version: parse (no validation), read
\* the version
SaveNutritionPlanBegin(w, user_id, targets, meals_json, okRead) ==
    /\ frame[w].pc = "idle"
    /\ Room
    /\ calls' = calls + 1
    /\ frame' = Enter(w,
            [pc |-> "save_nutrition_plan", user_id |-> user_id,
             targets |-> targets, meals_json |-> meals_json,
             meals |-> MealsOf(meals_json),
             version |-> next_version(nutrition_plan_versions, user_id, okRead)])
    /\ ret' = Pending
    /\ faulted' = (faulted \/ ~okRead)
    /\ UNCHANGED tables

\* save_nutrition_plan from its insert_row on ("notes" is carried through
\* unchanged and left out, as is "created_at")
SaveNutritionPlanInsert(w, okInsert, okEvent) ==
    LET f == frame[w]
    IN  /\ f.pc = "save_nutrition_plan"
        /\ nutrition_plan_versions' = insert_row(nutrition_plan_versions,
               [user_id |-> f.user_id, version |-> f.version,
                kcal |-> f.targets[1], protein_grams |-> f.targets[2],
                carbs_grams |-> f.targets[3], fat_grams |-> f.targets[4],
                meals |-> f.meals],
               okInsert)
        /\ change_events' = insert_row(change_events,
               ChangeEvent(f.user_id, "NUTRITION_PLAN_SAVED", f.version), okEvent)
        /\ ret' = [op |-> "save_nutrition_plan", user_id |-> f.user_id,
                   meals_json |-> f.meals_json, success |-> TRUE,
                   version |-> f.version, overlapped |-> f.overlapped,
                   write |-> IF okInsert THEN "ok" ELSE "failed"]
        /\ frame' = [frame EXCEPT ![w] = Idle]
        /\ faulted' = (faulted \/ ~okInsert \/ ~okEvent)
        /\ UNCHANGED <<workout_logs, weight_entries, meal_logs, training_plan_versions,
                       goals, user_profiles, user_context, calls>>

-----------------------------------------------------------------------------
(* tools.py: workouts *)

\* "try: entries = json.loads(entries_json) / except: entries = []"
EntriesOf(entries_json) ==
    IF JsonLoads(entries_json).ok THEN JsonLoads(entries_json).val
    ELSE [t |-> "list", v |-> <<>>]

\* log_workout: no validation, an upsert on (user_id, date), no ChangeEvent
LogWorkout(user_id, entries_json, log_date, ok) ==
    LET d == IF log_date = NoDate THEN Today ELSE log_date
    IN  /\ Room
        /\ calls' = calls + 1
        /\ workout_logs' = upsert_row(workout_logs,
               [user_id |-> user_id, date |-> d, entries |-> EntriesOf(entries_json)],
               {"user_id", "date"}, ok)
        /\ ret' = [op |-> "log_workout", user_id |-> user_id, date |-> d,
                   success |-> TRUE, write |-> IF ok THEN "ok" ELSE "failed"]
        /\ faulted' = (faulted \/ ~ok)
        /\ UNCHANGED <<weight_entries, meal_logs, training_plan_versions,
                       nutrition_plan_versions, goals, user_profiles,
                       user_context, change_events, frame>>

-----------------------------------------------------------------------------
(* tools.py: goals *)

\* the arguments of save_goal: target_weight_kg, strength_targets,
\* horizon_weeks, plan_text
GoalValues ==
    {[target_weight_kg |-> 80, strength_targets |-> "", horizon_weeks |-> 12,
      plan_text |-> "plan"],
     [target_weight_kg |-> Null, strength_targets |-> "Benkpress 100kg",
      horizon_weeks |-> Null, plan_text |-> ""]}

\* an update that marks no row
UnsetNothing(table, user_id) == table

\* an update without its filter on the user
UnsetEveryone(table, user_id) ==
    [i \in 1..Len(table) |-> [table[i] EXCEPT !.is_current = FALSE]]

\* update({"is_current": False}).eq("user_id", uid)
UnsetCurrent(table, user_id) ==
    [i \in 1..Len(table) |->
        IF table[i].user_id = user_id
        THEN [table[i] EXCEPT !.is_current = FALSE]
        ELSE table[i]]

\* save_goal, up to its update: the update is not guarded, a failed one
\* raises and the call ends there
SaveGoalBegin(w, user_id, goal, okUpdate) ==
    /\ Room
    /\ frame[w] = Idle
    /\ calls' = calls + 1
    /\ faulted' = (faulted \/ ~okUpdate)
    /\ IF okUpdate
       THEN /\ goals' = UnsetCurrent(goals, user_id)
            /\ frame' = Enter(w, [pc |-> "save_goal", user_id |-> user_id,
                                  goal |-> goal])
            /\ ret' = Pending
       ELSE /\ ret' = [op |-> "save_goal", user_id |-> user_id,
                       success |-> FALSE, raised |-> TRUE, write |-> "none",
                       overlapped |-> OthersInFlight(w, user_id) # {}]
            /\ UNCHANGED <<workout_logs, goals, frame>>
    /\ UNCHANGED <<workout_logs, weight_entries, meal_logs, training_plan_versions,
                   nutrition_plan_versions, user_profiles, user_context,
                   change_events>>

\* save_goal: version = next_version(GOALS, uid)
SaveGoalVersion(w, okRead) ==
    LET f == frame[w]
    IN  /\ f.pc = "save_goal"
        /\ frame' = [frame EXCEPT ![w] =
                        [pc |-> "save_goal_insert", user_id |-> f.user_id,
                         goal |-> f.goal, overlapped |-> f.overlapped,
                         version |-> next_version(goals, f.user_id, okRead)]]
        /\ ret' = Pending
        /\ faulted' = (faulted \/ ~okRead)
        /\ UNCHANGED <<tables, calls>>

\* save_goal: the insert of the new current row, and the return
SaveGoalInsert(w, okInsert) ==
    LET f == frame[w]
    IN  /\ f.pc = "save_goal_insert"
        /\ goals' = insert_row(goals,
               [user_id |-> f.user_id, version |-> f.version,
                is_current |-> TRUE,
                target_weight_kg |-> f.goal.target_weight_kg,
                strength_targets |-> f.goal.strength_targets,
                horizon_weeks |-> f.goal.horizon_weeks,
                plan |-> IF f.goal.plan_text # ""
                         THEN [text |-> f.goal.plan_text] ELSE None],
               okInsert)
        /\ ret' = [op |-> "save_goal", user_id |-> f.user_id,
                   success |-> TRUE, raised |-> FALSE, version |-> f.version,
                   goal |-> f.goal, overlapped |-> f.overlapped,
                   write |-> IF okInsert THEN "ok" ELSE "failed"]
        /\ frame' = [frame EXCEPT ![w] = Idle]
        /\ faulted' = (faulted \/ ~okInsert)
        /\ UNCHANGED <<workout_logs, weight_entries, meal_logs, training_plan_versions,
                       nutrition_plan_versions, user_profiles, user_context,
                       change_events, calls>>

-----------------------------------------------------------------------------
(* tools.py: profile and memory *)

\* the columns that hold numbers: their NULL is Null, that of a text column
\* is None
NumericColumns ==
    {"target_weight_kg", "horizon_weeks", "current_weight_kg",
     "training_days_per_week", "age", "height_cm"}

IsNull(column, v) == IF column \in NumericColumns THEN v = Null ELSE v = None

\* the columns update_profile can write
ProfileColumns ==
    {"current_weight_kg", "training_days_per_week", "goals", "injury_history",
     "nutrition_preferences"}

\* the arguments of update_profile that leave every column out
NoFields ==
    [current_weight_kg |-> Null, training_days_per_week |-> Null,
     goals |-> None, injury_history |-> None, nutrition_preferences |-> None]

\* the arguments of update_profile: none, a weight, days and goals, an empty
\* goals text and an injury, a weight and preferences
ProfileArgs ==
    {NoFields,
     [NoFields EXCEPT !.current_weight_kg = 90],
     [NoFields EXCEPT !.training_days_per_week = 4, !.goals = "styrke"],
     [NoFields EXCEPT !.goals = "", !.injury_history = "kne"],
     [NoFields EXCEPT !.current_weight_kg = 85, !.nutrition_preferences = "vegetar"]}

\* the columns of `args` that are not None
Supplied(args) == {c \in DOMAIN args : ~IsNull(c, args[c])}

\* update_profile: the row holds user_id and the supplied columns
UpdateProfile(user_id, args, ok) ==
    LET row == [c \in {"user_id"} \cup Supplied(args) |->
                    IF c = "user_id" THEN user_id ELSE args[c]]
    IN  /\ Room
        /\ calls' = calls + 1
        /\ user_profiles' = upsert_row(user_profiles, row, {"user_id"}, ok)
        /\ ret' = [op |-> "update_profile", user_id |-> user_id, args |-> args,
                   success |-> TRUE, write |-> IF ok THEN "ok" ELSE "failed"]
        /\ faulted' = (faulted \/ ~ok)
        /\ UNCHANGED <<workout_logs, weight_entries, meal_logs, training_plan_versions,
                       nutrition_plan_versions, goals, user_context,
                       change_events, frame>>

FactKeys == {"skader", "allergier"}
FactValues == {"kne", "skulder"}

\* remember_fact: an upsert on (user_id, key)
RememberFact(user_id, key, value, ok) ==
    /\ Room
    /\ calls' = calls + 1
    /\ user_context' = upsert_row(user_context,
            [user_id |-> user_id, key |-> key, value |-> value,
             source |-> "agent"],
            {"user_id", "key"}, ok)
    /\ ret' = [op |-> "remember_fact", user_id |-> user_id, key |-> key,
               value |-> value, success |-> TRUE,
               write |-> IF ok THEN "ok" ELSE "failed"]
    /\ faulted' = (faulted \/ ~ok)
    /\ UNCHANGED <<workout_logs, weight_entries, meal_logs, training_plan_versions,
                   nutrition_plan_versions, goals, user_profiles,
                   change_events, frame>>

-----------------------------------------------------------------------------
(* tools.py: the stats snapshot *)

\* bool(v) of a column's value: not NULL, not 0, not ""
TruthyAt(column, v) ==
    IF column \in NumericColumns THEN v # Null /\ v # 0
    ELSE v # None /\ v # ""

NotNull(column, v) == ~IsNull(column, v)

\* the test a projection keeps a column's value by
Keep(test, column, v) ==
    CASE test = "truthy" -> TruthyAt(column, v)
      [] test = "not_null" -> NotNull(column, v)
      [] OTHER -> TRUE

\* {k: row[k] for k in columns if Keep(k, row[k])}
Project(row, columns, test) ==
    [k \in {c \in columns \cap DOMAIN row : Keep(test, c, row[c])} |-> row[k]]

\* the user's weight rows by date descending, the first five, "date, kg"
RecentWeights(user_id) ==
    LET asc == WeightsByDate({i \in 1..Len(weight_entries) :
                                weight_entries[i].user_id = user_id})
    IN  Limit([i \in 1..Len(asc) |-> asc[Len(asc) + 1 - i]], RecentLimit)

\* select("version, kcal, protein_grams, carbs_grams, fat_grams")
NutritionColumns(row) ==
    Project(row, {"version", "kcal", "protein_grams", "carbs_grams", "fat_grams"},
            "any")

\* the snapshots get_user_stats may build (one per latest row it may be given)
StatsOf(user_id, okGoal, okMeals, okContext, okProfile) ==
    LET rows == RecentWeights(user_id)
        goal == find_one(goals, [user_id |-> user_id, is_current |-> TRUE], okGoal)
        meals == find_many(meal_logs, [user_id |-> user_id, date |-> Today], okMeals)
        ctx_rows == find_many(user_context, [user_id |-> user_id], okContext)
        profile == find_one(user_profiles, [user_id |-> user_id], okProfile)
        tps == LatestRows(training_plan_versions, user_id)
        nps == LatestRows(nutrition_plan_versions, user_id)
        fixed ==
            (IF rows # <<>>
             THEN [latest_weight |-> rows[1], recent_weights |-> rows]
             ELSE <<>>)
            @@ (IF goal # <<>>
                THEN [current_goal |->
                        Project(goal[1], {"target_weight_kg", "strength_targets",
                                          "horizon_weeks"}, "truthy")]
                ELSE <<>>)
            @@ [today_meals |->
                    [count |-> Len(meals),
                     totals |-> [calories |-> SumMacro(meals, "total_calories"),
                                 protein |-> SumMacro(meals, "total_protein_g"),
                                 carbs |-> SumMacro(meals, "total_carbs_g"),
                                 fat |-> SumMacro(meals, "total_fat_g")]]]
            @@ (IF ctx_rows # <<>>
                THEN [user_context |->
                        [k \in {ctx_rows[i].key : i \in 1..Len(ctx_rows)} |->
                            ctx_rows[Max({i \in 1..Len(ctx_rows) :
                                            ctx_rows[i].key = k})].value]]
                ELSE <<>>)
            @@ (IF profile # <<>>
                THEN [profile |->
                        Project(profile[1],
                                DOMAIN profile[1] \ {"id", "created_at", "updated_at"},
                                "not_null")]
                ELSE <<>>)
        training ==
            IF tps = {} THEN {<<>>}
            ELSE {[training_plan |->
                    [version |-> training_plan_versions[i].version,
                     days_count |-> Len(training_plan_versions[i].days.v)]] :
                  i \in tps}
        nutrition ==
            IF nps = {} THEN {<<>>}
            ELSE {[nutrition_plan |-> NutritionColumns(nutrition_plan_versions[i])] :
                  i \in nps}
    IN  {fixed @@ t @@ n : t \in training, n \in nutrition}

\* get_user_stats: the three get_db() queries are not guarded, a failed one
\* raises; so does tp.data or np_res.data when the user has no plan row and
\* maybe_single().execute() returns None; the four db.py reads give nothing
\* when they fail
GetUserStats(user_id, okQueries, okGoal, okMeals, okContext, okProfile, noneResponse) ==
    /\ \E r \in IF \/ ~okQueries
                   \/ /\ noneResponse
                      /\ \/ Versions(training_plan_versions, user_id) = {}
                         \/ Versions(nutrition_plan_versions, user_id) = {}
                THEN {[raised |-> TRUE]}
                ELSE {[raised |-> FALSE, stats |-> st] :
                        st \in StatsOf(user_id, okGoal, okMeals, okContext,
                                       okProfile)} :
            ret' = [op |-> "get_user_stats", user_id |-> user_id] @@ r
    /\ faulted' = (faulted \/ ~okQueries \/ ~okGoal \/ ~okMeals \/ ~okContext
                    \/ ~okProfile)
    /\ UNCHANGED <<tables, frame, calls>>

-----------------------------------------------------------------------------
(* coach_majen.py: load_context.  The tables USERS and COACH_KNOWLEDGE are   *)
(* read and never written by the service.                                    *)

\* table USERS: u1 with a username only, the mentor m1; u2 and m2 have no row
users ==
    <<[id |-> "u1", firstName |-> None, first_name |-> "", username |-> "ola"],
      [id |-> "m1", firstName |-> "Majen", username |-> "majen"]>>

\* table COACH_KNOWLEDGE: two known keys and one unknown key of m1
coach_knowledge ==
    <<[mentor_id |-> "m1", key |-> "voice_tone", value |-> "varm"],
      [mentor_id |-> "m1", key |-> "hobby", value |-> "ski"],
      [mentor_id |-> "m1", key |-> "training_philosophy", value |-> "progressiv"]>>

Mentors == {"m1", "m2"}

\* row.get(key): NULL for a column the row does not carry
Get(row, key) ==
    IF key \in DOMAIN row THEN row[key]
    ELSE IF key \in NumericColumns THEN Null ELSE None

\* a or b, of two text values
Or(a, b) == IF a # None /\ a # "" THEN a ELSE b

\* the profile columns of the onboarding summary and their labels, in order
ProfileMapping ==
    <<<<"gender", "Kjonn">>, <<"age", "Alder">>, <<"height_cm", "Hoyde">>,
      <<"current_weight_kg", "Vekt">>,
      <<"training_days_per_week", "Treningsdager/uke">>, <<"goals", "Mal">>,
      <<"fitness_level", "Treningsniva">>,
      <<"training_location", "Treningssted">>,
      <<"available_equipment", "Utstyr">>, <<"injury_history", "Skader">>,
      <<"nutrition_preferences", "Matpreferanser">>>>

\* the lines "- label: val" of the columns of `profile` that hold a truthy
\* value, a line as <<label, val>>; the summary is its lines
RECURSIVE SummaryParts(_, _)
SummaryParts(profile, n) ==
    IF n = 0 THEN <<>>
    ELSE LET key == ProfileMapping[n][1]
             val == Get(profile, key)
         IN  IF TruthyAt(key, val)
             THEN Append(SummaryParts(profile, n - 1), <<ProfileMapping[n][2], val>>)
             ELSE SummaryParts(profile, n - 1)

\* the value of the last row of `knowledge` with the key, "" with none
KnowledgeOf(knowledge, key) ==
    LET at == {i \in 1..Len(knowledge) : knowledge[i].key = key}
    IN  IF at = {} THEN "" ELSE knowledge[Max(at)].value

\* the outcomes of the five reads of load_context
Reads == {"user", "profile", "facts", "mentor", "knowledge"}
ReadOutcomes == [Reads -> BOOLEAN]
AllOk == [r \in Reads |-> TRUE]

\* every read answered, one read failing, the store unreachable
SomeOutcomes ==
    {AllOk, [r \in Reads |-> FALSE]} \cup {[AllOk EXCEPT ![r] = FALSE] : r \in Reads}

\* load_context: the CoachContext of a turn; every read goes through
\* find_one or find_many, which give nothing when the call fails
load_context(user_id, mentor_id, oks) ==
    LET user == find_one(users, [id |-> user_id], oks["user"])
        profile == find_one(user_profiles, [user_id |-> user_id], oks["profile"])
        context_rows == find_many(user_context, [user_id |-> user_id], oks["facts"])
        mentor == find_one(users, [id |-> mentor_id], oks["mentor"])
        knowledge == find_many(coach_knowledge, [mentor_id |-> mentor_id],
                               oks["knowledge"])
    IN  [user_id |-> user_id,
         mentor_id |-> mentor_id,
         user_name |->
            IF user # <<>>
            THEN Or(Get(user[1], "firstName"),
                    Or(Get(user[1], "first_name"),
                       Or(Get(user[1], "username"), "")))
            ELSE "",
         onboarding_summary |->
            IF profile # <<>>
            THEN SummaryParts(profile[1], Len(ProfileMapping)) ELSE <<>>,
         user_context_summary |->
            [i \in 1..Len(context_rows) |->
                <<context_rows[i].key, context_rows[i].value>>],
         mentor_name |->
            IF mentor # <<>>
            THEN <<"Coach", Or(Get(mentor[1], "firstName"),
                               Or(Get(mentor[1], "first_name"), "Majen"))>>
            ELSE <<"Coach", "Majen">>,
         mentor_voice_tone |-> KnowledgeOf(knowledge, "voice_tone"),
         mentor_training_philosophy |->
            KnowledgeOf(knowledge, "training_philosophy"),
         mentor_nutrition_philosophy |->
            KnowledgeOf(knowledge, "nutrition_philosophy"),
         mentor_core_instructions |->
            KnowledgeOf(knowledge, "core_instructions")]

-----------------------------------------------------------------------------
(* main.py: the /chat turn.  Runner.run starts the input guardrail and the   *)
(* first turn of Coach Majen together; the guardrail's verdict and the tool  *)
(* calls of that first turn come in either order.                            *)

NoTurn == [pc |-> "idle"]

\* the fixed refusal of the handler of InputGuardrailTripwireTriggered, a
\* token per sentence
Refusal ==
    <<"Beklager, men jeg kan ikke hjelpe med det du spor om.",
      "Jeg er en fitness-coach og kan hjelpe deg med trening, kosthold og mal.",
      "Hvis du trenger medisinsk hjelp, ta kontakt med legen din.">>

\* a text is a sequence of characters
Letters(n) == [i \in 1..n |-> "a"]

\* a guardrail that measures the output as it came
StripNothing(text) == text

\* output.strip()
Strip(text) ==
    LET ns == {i \in 1..Len(text) : text[i] # " "}
    IN  IF ns = {} THEN <<>>
        ELSE SubSeq(text, CHOOSE i \in ns : \A j \in ns : i <= j, Max(ns))

\* the shortest stripped answer the language guardrail has checked
MinChecked == 20

\* the final outputs of Coach Majen: none, one of 19 characters between two
\* blanks, one of 20 characters, a blank, one of 20 characters and a blank
Outputs ==
    {<<>>, <<" ">> \o Letters(MinChecked - 1) \o <<" ">>, Letters(MinChecked),
     <<" ">>, Letters(MinChecked) \o <<" ">>}

\* the most tool calls Coach Majen makes in a turn
MaxTools == 2

\* the entries of the conversation history that chat looks at
Window == 20

\* a history entry, and the content of a message: the profile line chat puts
\* in front ("[SYSTEM: ...] ", <<>> for none) and the text
Entry(role, text) == [role |-> role, content |-> [system |-> <<>>, text |-> text]]

\* the current message of the requests
Message == <<"h", "v", "a">>

\* the conversation histories of the requests: none; a user and an assistant
\* entry; entries of another role, blank and empty; an assistant entry first;
\* one entry more than the window, a role to be dropped among them
Histories ==
    {<<>>,
     <<Entry("user", Letters(1)), Entry("assistant", Letters(2))>>,
     <<Entry("system", Letters(1)), Entry("user", <<" ", " ">>),
       Entry("assistant", <<>>), Entry("user", Letters(2))>>,
     <<Entry("assistant", Letters(1)), Entry("user", Letters(2))>>,
     [i \in 1..(Window + 1) |->
        Entry(IF i = Window THEN "tool"
              ELSE IF i % 2 = 1 THEN "user" ELSE "assistant", Letters(i))]}

\* a window that keeps the oldest entries
Oldest(history) ==
    SubSeq(history, 1, IF Len(history) < Window THEN Len(history) ELSE Window)

\* req.conversation_history[-20:]
Recent(history) ==
    SubSeq(history, IF Len(history) > Window THEN Len(history) - Window + 1 ELSE 1,
           Len(history))

\* row.get(key, default)
GetOr(row, key, default) == IF key \in DOMAIN row THEN row[key] ELSE default

\* role in ("user", "assistant") and content.strip()
Kept(msg) ==
    /\ GetOr(msg, "role", "user") \in {"user", "assistant"}
    /\ Strip(GetOr(msg, "content", [system |-> <<>>, text |-> <<>>]).text) # <<>>

\* "[SYSTEM:" in content
HasMarker(content) ==
    \/ content.system # <<>>
    \/ \E i \in 1..Len(content.text) : content.text[i] = "[SYSTEM:"

\* the input of Runner.run: the kept entries of the window, then the current
\* message; the profile line goes in front of the current message when there
\* is no entry before it, and else in front of the first entry when that is
\* a user's and carries none
Messages(history, message, ctx) ==
    LET kept == SelectSeq(Recent(history), Kept)
        prefix == ctx.onboarding_summary
        current == [role |-> "user",
                    content |-> [system |-> IF kept = <<>> THEN prefix ELSE <<>>,
                                 text |-> message]]
        all == [i \in 1..Len(kept) |->
                    [role |-> GetOr(kept[i], "role", "user"),
                     content |-> kept[i].content]] \o <<current>>
    IN  IF /\ prefix # <<>> /\ Len(all) > 1
           /\ all[1].role = "user" /\ ~HasMarker(all[1].content)
        THEN [all EXCEPT ![1].content.system = prefix]
        ELSE all

\* chat, up to Runner.run: the context and the messages of the turn
Chat(user_id, mentor_id, message, history, oks) ==
    /\ turn.pc \in {"idle", "responded"}
    /\ LET ctx == load_context(user_id, mentor_id, oks)
       IN  turn' = [pc |-> "run", user_id |-> user_id, guard |-> "running",
                    language |-> "none", tools_called |-> <<>>,
                    timed_out |-> {}, before |-> tables, ctx |-> ctx, loaded |-> oks,
                    history |-> history,
                    messages |-> Messages(history, message, ctx)]
    /\ faulted' = (faulted \/ oks # AllOk)
    /\ UNCHANGED <<tables, frame, ret, calls>>

\* the response of a turn that ended
Responded(response) ==
    [pc |-> "responded", user_id |-> turn.user_id, guard |-> turn.guard,
     language |-> turn.language, invoked |-> turn.tools_called,
     timed_out |-> turn.timed_out, before |-> turn.before,
     response |-> response]

\* safety_guardrail: the verdict of the Safety Checker; a tripwire raises
\* InputGuardrailTripwireTriggered out of Runner.run, which chat answers with
\* the refusal
SafetyGuardrail(is_unsafe) ==
    /\ turn.pc = "run"
    /\ turn.guard = "running"
    /\ turn' = IF is_unsafe
               THEN [Responded([status |-> 200, response |-> Refusal,
                                tools_called |-> <<>>,
                                guardrail_blocked |-> TRUE,
                                blocked_reason |-> "safety"])
                     EXCEPT !.guard = "tripped"]
               ELSE [turn EXCEPT !.guard = "passed"]
    /\ UNCHANGED <<tables, frame, ret, faulted, calls>>

\* Coach Majen calls the tool `name` in the turn that is running
CallTool(name) ==
    /\ turn.pc = "run"
    /\ Len(turn.tools_called) < MaxTools
    /\ turn' = [turn EXCEPT !.tools_called = Append(@, name)]

\* delegate_body_tracking: the Body Tracker logs a weight
DelegateLogWeight(kg, log_date, okUpsert, okEvent) ==
    /\ CallTool("delegate_body_tracking")
    /\ LogWeight(turn.user_id, kg, log_date, okUpsert, okEvent)

\* delegate_body_tracking: the Body Tracker reads the weight history
DelegateWeightHistory(days, ok) ==
    /\ CallTool("delegate_body_tracking")
    /\ GetWeightHistory(turn.user_id, days, ok)

\* delegate_nutrition: the Nutrition Agent logs a meal
DelegateLogMeal(macros, log_date, ok) ==
    /\ CallTool("delegate_nutrition")
    /\ LogMeal(turn.user_id, macros, log_date, ok)

\* delegate_nutrition: the Nutrition Agent reads the totals of today
DelegateTodayNutrition(ok) ==
    /\ CallTool("delegate_nutrition")
    /\ GetTodayNutrition(turn.user_id, ok)

\* delegate_profile: the Profile Agent updates the profile
DelegateUpdateProfile(args, ok) ==
    /\ CallTool("delegate_profile")
    /\ UpdateProfile(turn.user_id, args, ok)

\* delegate_profile: the Profile Agent remembers a fact
DelegateRememberFact(key, value, ok) ==
    /\ CallTool("delegate_profile")
    /\ RememberFact(turn.user_id, key, value, ok)

\* the delegate tools of Coach Majen, each under a ceiling of 30 or 45 seconds
Delegates ==
    {"delegate_body_tracking", "delegate_nutrition", "delegate_training_plan",
     "delegate_workout_log", "delegate_goals", "delegate_profile"}

\* a ceiling that raised out of Runner.run: chat would answer HTTP 500
TimedOutAborts(t, name) ==
    [pc |-> "responded", user_id |-> t.user_id, guard |-> t.guard,
     language |-> t.language, invoked |-> Append(t.tools_called, name),
     timed_out |-> t.timed_out \cup {name}, before |-> t.before,
     response |-> [status |-> 500]]

\* function_tool(timeout=...): a tool call that exceeds its ceiling is
\* cancelled and its result is an error text handed to Coach Majen, whose
\* run goes on
TimedOut(t, name) ==
    [t EXCEPT !.tools_called = Append(@, name), !.timed_out = @ \cup {name}]

\* the delegate `name` exceeds its ceiling before its executor has called
\* the store
DelegateTimesOut(name) ==
    /\ turn.pc = "run"
    /\ Len(turn.tools_called) < MaxTools
    /\ turn' = TimedOut(turn, name)
    /\ ret' = [op |-> "timeout", tool |-> name]
    /\ UNCHANGED <<tables, frame, faulted, calls>>

\* the final output of Coach Majen, acted on once the input guardrail is done
FinalOutput(output) ==
    /\ turn.pc = "run"
    /\ turn.guard = "passed"
    /\ turn' = [pc |-> "output", user_id |-> turn.user_id, guard |-> turn.guard,
                language |-> turn.language, tools_called |-> turn.tools_called,
                timed_out |-> turn.timed_out, before |-> turn.before,
                output |-> output]
    /\ UNCHANGED <<tables, frame, ret, faulted, calls>>

\* language_guardrail on the final output, and the end of chat: an output
\* that is empty or shorter than 20 characters once stripped is not handed
\* to the Language Checker ("skipped"); the verdict of the Language Checker
\* is the tripwire, which raises OutputGuardrailTripwireTriggered out of
\* Runner.run, and chat answers that as any other exception, with HTTP 500
LanguageGuardrail(is_wrong_language) ==
    /\ turn.pc = "output"
    /\ LET unchecked == turn.output = <<>> \/ Len(Strip(turn.output)) < MinChecked
           verdict == IF unchecked THEN "skipped"
                      ELSE IF is_wrong_language THEN "other" ELSE "norwegian"
       IN  /\ unchecked => ~is_wrong_language
           /\ turn' = [pc |-> "responded", user_id |-> turn.user_id,
                       guard |-> turn.guard, language |-> verdict,
                       invoked |-> turn.tools_called,
                       timed_out |-> turn.timed_out, before |-> turn.before,
                       output |-> turn.output,
                       response |->
                          IF verdict = "other"
                          THEN [status |-> 500]
                          ELSE [status |-> 200, response |-> turn.output,
                                tools_called |-> turn.tools_called,
                                guardrail_blocked |-> FALSE,
                                blocked_reason |-> ""]]
    /\ UNCHANGED <<tables, frame, ret, faulted, calls>>

\* an exception out of Runner.run other than the input tripwire (a failed
\* inference call): HTTP 500
RunFails ==
    /\ turn.pc \in {"run", "output"}
    /\ turn' = Responded([status |-> 500])
    /\ UNCHANGED <<tables, frame, ret, faulted, calls>>

-----------------------------------------------------------------------------
(* Specifications *)

NoCall == [op |-> "none"]

InitStore ==
    /\ weight_entries = <<>>
    /\ meal_logs = <<>>
    /\ training_plan_versions = <<>>
    /\ nutrition_plan_versions = <<>>
    /\ goals = <<>>
    /\ user_profiles = <<>>
    /\ user_context = <<>>
    /\ change_events = <<>>
    /\ workout_logs = <<>>

InitCalls ==
    /\ frame = [w \in Workers |-> Idle]
    /\ ret = NoCall
    /\ faulted = FALSE
    /\ calls = 0
    /\ turn = NoTurn

Init == InitStore /\ InitCalls

\* the weight executors, called one at a time
NextWeight ==
    \/ \E u \in Users, kg \in KgValues, d \in Dates \cup {NoDate},
          okUpsert \in BOOLEAN, okEvent \in BOOLEAN :
            LogWeight(u, kg, d, okUpsert, okEvent) /\ UNCHANGED turn
    \/ \E u \in Users, days \in DaysValues, ok \in BOOLEAN :
            GetWeightHistory(u, days, ok) /\ UNCHANGED turn

SpecWeight == Init /\ [][NextWeight]_vars

\* a meal row another writer of the table left with macros that are null
NullMacroRow ==
    [user_id |-> "u1", date |-> Today,
     total_calories |-> Null, total_protein_g |-> 30,
     total_carbs_g |-> Null, total_fat_g |-> Null]

\* the meal tables a behaviour starts from: empty, one row with null macros,
\* and a day on which u1 has logged as many meals as one find_many returns
InitialMealLogs ==
    {<<>>, <<NullMacroRow>>,
     [i \in 1..FindLimit |-> MealRow("u1", Today, <<400, 30, 40, 15>>)]}

InitMeal ==
    /\ weight_entries = <<>>
    /\ meal_logs \in InitialMealLogs
    /\ training_plan_versions = <<>>
    /\ nutrition_plan_versions = <<>>
    /\ goals = <<>>
    /\ user_profiles = <<>>
    /\ user_context = <<>>
    /\ change_events = <<>>
    /\ workout_logs = <<>>
    /\ InitCalls

\* the meal executors, called one at a time
NextMeal ==
    \/ \E u \in Users, m \in MacroValues, d \in Dates \cup {NoDate},
          ok \in BOOLEAN :
            LogMeal(u, m, d, ok) /\ UNCHANGED turn
    \/ \E u \in Users, ok \in BOOLEAN :
            GetTodayNutrition(u, ok) /\ UNCHANGED turn

SpecMeal == InitMeal /\ [][NextMeal]_vars

\* the training-plan executors as the workers `ws` may run them for the
\* users `us` and the payloads `texts`; the steps of two workers interleave
TrainingSteps(ws, us, texts) ==
    \/ \E w \in ws, u \in us, text \in texts, okRead \in BOOLEAN :
            SaveTrainingPlanBegin(w, u, text, okRead) /\ UNCHANGED turn
    \/ \E w \in ws, okInsert \in BOOLEAN, okEvent \in BOOLEAN :
            SaveTrainingPlanInsert(w, okInsert, okEvent) /\ UNCHANGED turn
    \/ \E u \in us, ok \in BOOLEAN, noneResponse \in BOOLEAN :
            GetCurrentTrainingPlan(u, ok, noneResponse) /\ UNCHANGED turn

\* the nutrition-plan executor, likewise
NutritionSteps(ws, us, texts) ==
    \/ \E w \in ws, u \in us, targets \in TargetValues, text \in texts,
          okRead \in BOOLEAN :
            SaveNutritionPlanBegin(w, u, targets, text, okRead) /\ UNCHANGED turn
    \/ \E w \in ws, okInsert \in BOOLEAN, okEvent \in BOOLEAN :
            SaveNutritionPlanInsert(w, okInsert, okEvent) /\ UNCHANGED turn

\* get_user_stats for the users `us`, its db.py reads answered as in `oks`
StatsSteps(us, oks) ==
    \E u \in us, okQueries \in BOOLEAN, okGoal \in oks, okMeals \in oks,
       okContext \in oks, okProfile \in oks, noneResponse \in BOOLEAN :
        /\ GetUserStats(u, okQueries, okGoal, okMeals, okContext, okProfile,
                        noneResponse)
        /\ UNCHANGED turn

\* the training-plan executors called one after the other
NextPlan == TrainingSteps({"w1"}, Users, DaysTexts)

SpecPlan == Init /\ [][NextPlan]_vars

\* one user's plans saved and read back, one call after the other
NextRoundTrip ==
    \/ TrainingSteps({"w1"}, {"u1"}, {OneDay, TwoDays})
    \/ NutritionSteps({"w1"}, {"u1"}, MealsTexts)
    \/ StatsSteps({"u1"}, {TRUE})

SpecRoundTrip == Init /\ [][NextRoundTrip]_vars

\* the plan executors called by two turns at once
NextPlanRace ==
    \/ TrainingSteps(Workers, Users, {OneDay})
    \/ NutritionSteps(Workers, Users, {OneMeal})

SpecPlanRace == Init /\ [][NextPlanRace]_vars

\* save_goal called by two turns at once
NextGoal ==
    \/ \E w \in Workers, u \in Users, goal \in GoalValues, okUpdate \in BOOLEAN :
            SaveGoalBegin(w, u, goal, okUpdate) /\ UNCHANGED turn
    \/ \E w \in Workers, okRead \in BOOLEAN :
            SaveGoalVersion(w, okRead) /\ UNCHANGED turn
    \/ \E w \in Workers, okInsert \in BOOLEAN :
            SaveGoalInsert(w, okInsert) /\ UNCHANGED turn

SpecGoal == Init /\ [][NextGoal]_vars

\* the saves of the three versioned records, those of goals by two turns at
\* once
NextVersions ==
    \/ TrainingSteps({"w1"}, {"u1"}, {OneDay, TwoDays})
    \/ NutritionSteps({"w1"}, {"u1"}, {OneMeal})
    \/ NextGoal

SpecVersions == Init /\ [][NextVersions]_vars

\* every executor that writes, called for two users by two turns at once,
\* the store answering every call
NextIsolation ==
    \/ \E u \in Users : LogWeight(u, MinKg, NoDate, TRUE, TRUE) /\ UNCHANGED turn
    \/ \E u \in Users :
            LogMeal(u, <<400, 30, 40, 15>>, NoDate, TRUE) /\ UNCHANGED turn
    \/ \E u \in Users : LogWorkout(u, OneDay, NoDate, TRUE) /\ UNCHANGED turn
    \/ \E w \in Workers, u \in Users :
            SaveTrainingPlanBegin(w, u, OneDay, TRUE) /\ UNCHANGED turn
    \/ \E w \in Workers : SaveTrainingPlanInsert(w, TRUE, TRUE) /\ UNCHANGED turn
    \/ \E w \in Workers, u \in Users, targets \in TargetValues :
            SaveNutritionPlanBegin(w, u, targets, OneMeal, TRUE) /\ UNCHANGED turn
    \/ \E w \in Workers : SaveNutritionPlanInsert(w, TRUE, TRUE) /\ UNCHANGED turn
    \/ \E w \in Workers, u \in Users, goal \in GoalValues :
            SaveGoalBegin(w, u, goal, TRUE) /\ UNCHANGED turn
    \/ \E w \in Workers : SaveGoalVersion(w, TRUE) /\ UNCHANGED turn
    \/ \E w \in Workers : SaveGoalInsert(w, TRUE) /\ UNCHANGED turn
    \/ \E u \in Users :
            UpdateProfile(u, [NoFields EXCEPT !.current_weight_kg = 90], TRUE)
            /\ UNCHANGED turn
    \/ \E u \in Users : RememberFact(u, "skader", "kne", TRUE) /\ UNCHANGED turn

SpecIsolation == Init /\ [][NextIsolation]_vars

\* the steps of chat and of Runner.run around the tool calls
TurnSteps(us, ms, histories, outcomes, outputs) ==
    \/ \E u \in us, m \in ms, history \in histories, oks \in outcomes :
            Chat(u, m, Message, history, oks)
    \/ \E is_unsafe \in BOOLEAN : SafetyGuardrail(is_unsafe)
    \/ \E output \in outputs : FinalOutput(output)
    \/ \E is_wrong_language \in BOOLEAN : LanguageGuardrail(is_wrong_language)
    \/ RunFails

\* turns served one after the other, with the body and nutrition delegates
NextTurn ==
    \/ TurnSteps(Users, {"m1"}, {<<>>}, {AllOk}, Outputs)
    \/ \E kg \in {MinKg, MaxKg}, okUpsert \in BOOLEAN :
            DelegateLogWeight(kg, NoDate, okUpsert, TRUE)
    \/ \E ok \in BOOLEAN : DelegateWeightHistory(DefaultDays, ok)
    \/ \E ok \in BOOLEAN : DelegateLogMeal(<<400, 30, 40, 15>>, NoDate, ok)
    \/ \E ok \in BOOLEAN : DelegateTodayNutrition(ok)

SpecTurn == Init /\ [][NextTurn]_vars

\* turns served one after the other in which the Profile Agent remembers the
\* user's name
NextName ==
    \/ TurnSteps(Users, {"m1"}, {<<>>}, {AllOk}, {Letters(MinChecked)})
    \/ \E value \in {"Ola", "Kari"}, ok \in BOOLEAN :
            DelegateRememberFact("name", value, ok)

SpecName == Init /\ [][NextName]_vars

\* turns in which a delegate may exceed its ceiling
NextTimeout ==
    \/ TurnSteps({"u1"}, {"m1"}, {<<>>}, {AllOk}, {Letters(MinChecked)})
    \/ \E kg \in {MinKg, MaxKg}, d \in Dates \cup {NoDate}, okUpsert \in BOOLEAN :
            DelegateLogWeight(kg, d, okUpsert, TRUE)
    \/ \E ok \in BOOLEAN : DelegateLogMeal(<<400, 30, 40, 15>>, NoDate, ok)
    \/ \E name \in Delegates : DelegateTimesOut(name)

SpecTimeout == Init /\ [][NextTimeout]_vars

\* turns served one after the other, with the profile delegate: what a turn
\* stores is the context of the next
NextContext ==
    \/ TurnSteps(Users, Mentors, {<<>>}, SomeOutcomes, {Letters(MinChecked)})
    \/ DelegateUpdateProfile([NoFields EXCEPT !.current_weight_kg = 90], TRUE)
    \/ \E value \in FactValues : DelegateRememberFact("skader", value, TRUE)

SpecContext == Init /\ [][NextContext]_vars

\* turns of one user with a conversation history, the profile delegate
\* supplying the profile line
NextMessages ==
    \/ TurnSteps({"u1"}, {"m1"}, Histories, {AllOk}, {Letters(MinChecked)})
    \/ \E args \in ProfileArgs, ok \in BOOLEAN : DelegateUpdateProfile(args, ok)

SpecMessages == Init /\ [][NextMessages]_vars

\* the profile and memory executors, called one at a time, and the snapshot
NextProfile ==
    \/ \E u \in Users, args \in ProfileArgs, ok \in BOOLEAN :
            UpdateProfile(u, args, ok) /\ UNCHANGED turn
    \/ \E u \in Users, key \in FactKeys, value \in FactValues, ok \in BOOLEAN :
            RememberFact(u, key, value, ok) /\ UNCHANGED turn

SpecProfile == Init /\ [][NextProfile]_vars

-----------------------------------------------------------------------------
(* Claims *)

\* the rows of the weight table of one user and date
WeightRowsOf(user_id, date) ==
    {i \in 1..Len(weight_entries) :
        weight_entries[i].user_id = user_id /\ weight_entries[i].date = date}

\* C1: a log_weight call with 20 <= kg <= 500 whose write the store accepted
\* returns success; every history read that reaches back to the logged date
\* then gives exactly one entry of that date, holding that kg, and the table
\* holds a single row for the (user, date), whatever was logged for it before.
C1_LogWeightThenHistory ==
    (ret.op = "log_weight" /\ MinKg <= ret.kg /\ ret.kg <= MaxKg /\ ret.write = "ok") =>
        /\ ret.success
        /\ Cardinality(WeightRowsOf(ret.user_id, ret.date)) = 1
        /\ \A days \in DaysValues :
            Today - days <= ret.date =>
                LET h == HistoryRows(ret.user_id, days)
                    at == {i \in 1..Len(h) : h[i].date = ret.date}
                IN  /\ Cardinality(at) = 1
                    /\ \A i \in at : h[i].kg = ret.kg

\* C1 witness: a second log for the same user and day, with another weight,
\* has returned: the day's row holds the later weight and the audit log shows
\* both writes
C1_Witness ==
    /\ ret.op = "log_weight" /\ ret.success /\ ret.write = "ok"
    /\ ret.kg = MaxKg
    /\ Len(change_events) >= 2
    /\ change_events[1].user_id = ret.user_id
    /\ change_events[2].user_id = ret.user_id
    /\ ~faulted
    /\ Len(weight_entries) = 1

\* C2: a log_weight call with kg < 20 or kg > 500 returns success = false and
\* leaves every table as it was: no weight row written or overwritten, no
\* ChangeEvent appended.
C2_RejectedWeightLeavesStore ==
    [][(ret'.op = "log_weight" /\ (ret'.kg < MinKg \/ ret'.kg > MaxKg)) =>
            (~ret'.success /\ tables' = tables)]_vars

\* C2 witness: a weight above the range was refused for a user and day that
\* already hold a row, which is still there with its in-range weight
C2_Witness ==
    /\ ret.op = "log_weight" /\ ret.kg > MaxKg /\ ~ret.success
    /\ \E i \in WeightRowsOf(ret.user_id, ret.date) :
            weight_entries[i].kg <= MaxKg
    /\ Len(change_events) = 1

\* the executors that mutate the store
MutatingOps ==
    {"log_weight", "log_meal", "log_workout", "save_training_plan",
     "save_nutrition_plan", "save_goal", "remember_fact", "update_profile"}

\* C7: a mutating executor whose primary write the store failed returns a
\* failure (success = false), never a success confirmation.
C7_FailedWriteIsReported ==
    (ret.op \in MutatingOps /\ ret.write = "failed") => ~ret.success

\* the sum of one macro over every row of the user dated today, null as 0
RECURSIVE SumAll(_, _, _)
SumAll(user_id, key, n) ==
    IF n = 0 THEN 0
    ELSE SumAll(user_id, key, n - 1)
            + IF meal_logs[n].user_id = user_id /\ meal_logs[n].date = Today
              THEN (IF meal_logs[n][key] = Null THEN 0 ELSE meal_logs[n][key])
              ELSE 0

\* C8: the totals get_today_nutrition returns from a read the store answered
\* are, for each macro, the sum over all of the user's rows dated today.
C8_TotalsSumAllRows ==
    (ret.op = "get_today_nutrition" /\ ret.read) =>
        /\ ret.totals.calories = SumAll(ret.user_id, "total_calories", Len(meal_logs))
        /\ ret.totals.protein = SumAll(ret.user_id, "total_protein_g", Len(meal_logs))
        /\ ret.totals.carbs = SumAll(ret.user_id, "total_carbs_g", Len(meal_logs))
        /\ ret.totals.fat = SumAll(ret.user_id, "total_fat_g", Len(meal_logs))
        /\ ret.count = Cardinality({i \in 1..Len(meal_logs) :
                meal_logs[i].user_id = ret.user_id /\ meal_logs[i].date = Today})

\* the rows a table holds for a user
RowsOf(table, user_id) == {i \in 1..Len(table) : table[i].user_id = user_id}

\* C3: with every store call answered, each save_training_plan that returns
\* success adds one row to the user's plans, its version is the number of
\* rows the user then has, the stored versions are exactly 1..that number,
\* and the current-plan read gives the version just saved.
C3_SequentialSavesNumberPlans ==
    [][(ret'.op = "save_training_plan" /\ ret'.success /\ ~faulted') =>
        LET u == ret'.user_id
            n == Cardinality(RowsOf(training_plan_versions', u))
        IN  /\ n = Cardinality(RowsOf(training_plan_versions, u)) + 1
            /\ ret'.version = n
            /\ Versions(training_plan_versions', u) = 1..n
            /\ \A c \in CurrentPlans(training_plan_versions', u) :
                    c.version = n
            /\ CurrentPlans(training_plan_versions', u) # {}]_vars

\* C3 witness: the second save of one user returned version 2 while the
\* other user holds a plan of their own
C3_Witness ==
    /\ ret.op = "save_training_plan" /\ ret.success /\ ~faulted
    /\ ret.version = 2
    /\ \E i \in 1..Len(training_plan_versions) :
            training_plan_versions[i].user_id # ret.user_id

\* the versions of a user's rows grow strictly in the order of insertion
StrictlyIncreasing(table) ==
    \A i, j \in 1..Len(table) :
        (i < j /\ table[i].user_id = table[j].user_id) =>
            table[i].version < table[j].version

\* C4: with every store call answered, and the steps of two saves of one user
\* interleaved in any way, no two rows of a (user, kind) carry the same
\* version and the versions are assigned in strictly increasing order.
C4_VersionsNeverReused ==
    ~faulted =>
        /\ StrictlyIncreasing(training_plan_versions)
        /\ StrictlyIncreasing(nutrition_plan_versions)

\* the five columns get_user_stats selects of a nutrition plan
StatsNutritionColumns ==
    {"version", "kcal", "protein_grams", "carbs_grams", "fat_grams"}

\* a training plan saved and then fetched is the payload that was submitted
TrainingRoundTrip ==
    (ret.op = "save_training_plan" /\ ret.success /\ ~faulted) =>
        CurrentPlans(training_plan_versions, ret.user_id) =
            {[has_plan |-> TRUE, version |-> ret.version,
              days |-> JsonLoads(ret.days_json).val]}

CurrentGoals(table, user_id) ==
    {i \in RowsOf(table, user_id) : table[i].is_current}

\* C5: a save_goal that no other call of the same user overlapped and whose
\* insert the store accepted leaves exactly one row of the user marked
\* current, the row it just inserted, however many rows of the user were
\* there and however many of them were marked current.
C5_OneCurrentGoal ==
    [][(/\ ret'.op = "save_goal" /\ ret'.success
        /\ ~ret'.overlapped /\ ret'.write = "ok") =>
            /\ Len(goals') = Len(goals) + 1
            /\ CurrentGoals(goals', ret'.user_id) = {Len(goals')}
            /\ goals'[Len(goals')].version = ret'.version
            /\ goals'[Len(goals')].target_weight_kg = ret'.goal.target_weight_kg]_vars

\* C5 witness: a goal was saved for a user who had two rows, both left
\* current by two overlapping saves, and is now the user's one current row
C5_Witness ==
    /\ ret.op = "save_goal" /\ ret.success /\ ~ret.overlapped
    /\ ret.write = "ok"
    /\ Cardinality(RowsOf(goals, ret.user_id)) = 3
    /\ goals[1].version = goals[2].version
    /\ goals[1].user_id = goals[2].user_id
    /\ CurrentGoals(goals, ret.user_id) = {3}

\* C6: a turn whose message the safety guardrail found unsafe is answered
\* with the fixed refusal, guardrail_blocked, blocked_reason "safety" and no
\* tools_called, and in that turn Coach Majen has invoked no tool and the
\* store is as it was when the turn began.
C6_UnsafeTurnDoesNothing ==
    (turn.pc = "responded" /\ turn.guard = "tripped") =>
        /\ turn.response = [status |-> 200, response |-> Refusal,
                            tools_called |-> <<>>, guardrail_blocked |-> TRUE,
                            blocked_reason |-> "safety"]
        /\ turn.invoked = <<>>
        /\ tables = turn.before

\* C10: a save_training_plan whose payload does not parse, is empty or is not
\* a list returns a failure and changes no table and starts no insert; a call
\* that returns success had a non-empty list.
C10_RejectedPlanLeavesStore ==
    [][ret'.op = "save_training_plan" =>
        LET p == JsonLoads(ret'.days_json)
        IN  IF p.ok /\ p.val.t = "list" /\ p.val.v # <<>>
            THEN ret'.success
            ELSE ~ret'.success /\ tables' = tables /\ frame' = frame]_vars

\* C10 witness: an empty list was refused for a user who holds a plan, whose
\* next save therefore still gets version 2
C10_Witness ==
    /\ ret.op = "save_training_plan" /\ ~ret.success
    /\ ret.days_json = EmptyList
    /\ Versions(training_plan_versions, ret.user_id) = {1}
    /\ next_version(training_plan_versions, ret.user_id, TRUE) = 2
    /\ Len(change_events) = 1

\* C11: a capability is called only once the safety check has passed, the
\* reply is composed only after the safety check has passed, a reply is
\* returned only after the language check of a composed reply, and a blocked
\* turn returns from the safety check with no capability called.
C11_TurnOrder ==
    [][/\ (/\ turn.pc = "run" /\ turn'.pc = "run"
           /\ turn'.tools_called # turn.tools_called) => turn.guard = "passed"
       /\ (turn'.pc = "output" /\ turn.pc # "output") =>
                (turn.pc = "run" /\ turn.guard = "passed")
       /\ (/\ turn'.pc = "responded" /\ turn.pc # "responded"
           /\ turn'.response.status = 200) =>
                IF turn'.guard = "tripped"
                THEN turn.pc = "run" /\ turn.tools_called = <<>>
                ELSE turn.pc = "output" /\ turn'.language # "none"]_vars

\* C12: a turn whose composed reply the Language Checker found not to be
\* Norwegian still returns that reply, unchanged, to the caller.
C12_FlaggedReplyIsReturned ==
    (turn.pc = "responded" /\ turn.language = "other") =>
        /\ turn.response.status = 200
        /\ turn.response.response = turn.output

\* the length of a text between its first and its last character that is
\* not a blank
TrimmedLen(text) ==
    LET ns == {i \in 1..Len(text) : text[i] # " "}
    IN  IF ns = {} THEN 0
        ELSE Max(ns) + 1 - CHOOSE a \in ns : \A b \in ns : a <= b

\* C13: the language guardrail hands a composed reply to the Language Checker
\* exactly when the reply, trimmed, has at least 20 characters; a reply it
\* does not hand over never trips the guardrail and is returned.
C13_ClassifierCalledFromTwentyCharacters ==
    [][(/\ turn.pc = "output" /\ turn'.pc = "responded"
        /\ turn'.language # "none") =>
            /\ turn'.language = "skipped" <=> TrimmedLen(turn.output) < MinChecked
            /\ turn'.language = "skipped" =>
                    /\ turn'.response.status = 200
                    /\ turn'.response.response = turn.output]_vars

\* C13 witness: a reply of 21 characters, 19 of them between two blanks, was
\* returned without a call of the Language Checker
C13_Witness ==
    /\ turn.pc = "responded"
    /\ turn.language = "skipped"
    /\ Len(turn.output) = MinChecked + 1
    /\ turn.response.status = 200

\* C17: an update_profile the store accepted leaves the user one profile row
\* in which every supplied column holds the supplied value and every other
\* column of update_profile holds what it held before the call (NULL when the
\* user had no row); the rows of the other users are as they were.
C17_ProfileUpdateIsPartial ==
    [][(ret'.op = "update_profile" /\ ret'.write = "ok") =>
        LET u == ret'.user_id
            old == RowsOf(user_profiles, u)
            new == RowsOf(user_profiles', u)
        IN  /\ Cardinality(new) = 1
            /\ \A i \in new, c \in ProfileColumns :
                    Get(user_profiles'[i], c) =
                        IF ~IsNull(c, ret'.args[c]) THEN ret'.args[c]
                        ELSE IF old = {} THEN NoFields[c]
                        ELSE Get(user_profiles[CHOOSE j \in old : TRUE], c)
            /\ \A v \in Users \ {u} :
                    Matching(user_profiles', [user_id |-> v]) =
                        Matching(user_profiles, [user_id |-> v])]_vars

\* C17 witness: the third update of a user supplied an empty goals text and an
\* injury; the weight and the days of the earlier updates are still there
C17_Witness ==
    /\ ret.op = "update_profile" /\ ret.write = "ok"
    /\ ret.args.injury_history = "kne"
    /\ \E i \in RowsOf(user_profiles, ret.user_id) :
            /\ Get(user_profiles[i], "current_weight_kg") = 90
            /\ Get(user_profiles[i], "training_days_per_week") = 4
            /\ Get(user_profiles[i], "goals") = ""
            /\ Get(user_profiles[i], "injury_history") = "kne"

\* the rows of the fact store for a user and a key
FactsOf(table, user_id, key) == Matching(table, [user_id |-> user_id, key |-> key])

\* C18: after a remember_fact the store accepted, the fact store holds at
\* most one row per user and key, the row of the call's user and key holds
\* the call's value, and the rows of every other user and key are as they
\* were.
C18_LastFactWins ==
    [][(ret'.op = "remember_fact" /\ ret'.write = "ok") =>
        /\ \A u \in Users, k \in FactKeys : Len(FactsOf(user_context', u, k)) <= 1
        /\ Len(FactsOf(user_context', ret'.user_id, ret'.key)) = 1
        /\ FactsOf(user_context', ret'.user_id, ret'.key)[1].value = ret'.value
        /\ \A u \in Users, k \in FactKeys :
                (u # ret'.user_id \/ k # ret'.key) =>
                    FactsOf(user_context', u, k) = FactsOf(user_context, u, k)]_vars

\* C18 witness: a key of a user was remembered twice with different values
\* and another key once; two rows are stored and the first holds the later
\* value
C18_Witness ==
    /\ ret.op = "remember_fact" /\ ret.write = "ok" /\ ~faulted
    /\ calls = 3
    /\ Len(user_context) = 2
    /\ user_context[1].user_id = user_context[2].user_id
    /\ user_context[1].key = ret.key
    /\ user_context[1].value = ret.value
    /\ ret.value = "skulder"

\* C14: chat gets a context from load_context only when every read of the
\* assembly was answered, and that context is the one the store gives; a
\* user or a mentor without rows gets empty summaries.
C14_ContextNeedsEveryRead ==
    [][(turn.pc \in {"idle", "responded"} /\ turn'.pc = "run") =>
        /\ turn'.loaded = AllOk
        /\ turn'.ctx = load_context(turn'.user_id, turn'.ctx.mentor_id, AllOk)]_vars

\* the entries of a history that reach Runner.run: among the last 20, those
\* of a user or an assistant with a character that is not a blank
Reaching(history) ==
    {i \in 1..Len(history) :
        /\ i > Len(history) - Window
        /\ history[i].role \in {"user", "assistant"}
        /\ \E k \in 1..Len(history[i].content.text) :
                history[i].content.text[k] # " "}

\* C20: the messages handed to Runner.run are the entries of the last 20 of
\* the history whose role is user or assistant and whose content is not
\* blank, in the order of the history, and then the current message of the
\* user as the last element.
C20_MessagesAreTheRecentHistory ==
    [][(turn.pc \in {"idle", "responded"} /\ turn'.pc = "run") =>
        LET h == turn'.history
            msgs == turn'.messages
            I == Reaching(h)
        IN  /\ Len(msgs) = Cardinality(I) + 1
            /\ Len(msgs) <= Window + 1
            /\ \A i \in I :
                    LET pos == Cardinality({j \in I : j <= i})
                    IN  /\ msgs[pos].role = h[i].role
                        /\ msgs[pos].content.text = h[i].content.text
            /\ msgs[Len(msgs)].role = "user"
            /\ msgs[Len(msgs)].content.text = Message]_vars

\* C20 witness: a turn with a history of 21 entries and a profile: the
\* oldest entry and the entry of a tool are left out, the second entry is
\* the first message and the current message is the twentieth
C20_Witness ==
    /\ turn.pc = "run"
    /\ Len(turn.history) = Window + 1
    /\ Len(turn.messages) = Window
    /\ turn.messages[1].content.text = Letters(2)
    /\ turn.messages[Window].content.text = Message
    /\ turn.ctx.onboarding_summary # <<>>

\* the read capabilities of the executors
ReadOps ==
    {"get_weight_history", "get_current_training_plan", "get_today_nutrition",
     "get_user_stats"}

\* C15: a read capability never raises: whatever the store answers, it
\* returns a result.
C15_ReadsNeverRaise ==
    ret.op \in ReadOps => ("raised" \notin DOMAIN ret \/ ~ret.raised)

\* C16: with every store call answered, get_user_stats returns a snapshot,
\* and the snapshot has the key of the latest weight, the current goal, the
\* training plan, the nutrition plan, the facts and the profile exactly when
\* the user has one.
C16_MissingPartsAreOmitted ==
    (ret.op = "get_user_stats" /\ ~faulted) =>
        /\ ~ret.raised
        /\ LET u == ret.user_id
               has(key) == key \in DOMAIN ret.stats
           IN  /\ has("latest_weight") <=> RowsOf(weight_entries, u) # {}
               /\ has("current_goal") <=>
                    Matching(goals, [user_id |-> u, is_current |-> TRUE]) # <<>>
               /\ has("training_plan") <=> RowsOf(training_plan_versions, u) # {}
               /\ has("nutrition_plan") <=> RowsOf(nutrition_plan_versions, u) # {}
               /\ has("user_context") <=> RowsOf(user_context, u) # {}
               /\ has("profile") <=> RowsOf(user_profiles, u) # {}

\* a step in which a delegate of the running turn exceeds its ceiling
TimeoutStep ==
    /\ turn.pc = "run"
    /\ turn'.pc \in {"run", "responded"}
    /\ turn'.timed_out # turn.timed_out

C21_AtMostOneCurrentGoal ==
    \A u \in Users : Cardinality(CurrentGoals(goals, u)) <= 1

\* the executors whose state change the audit trail is to record
AuditedOps ==
    {"log_weight", "save_training_plan", "save_nutrition_plan", "remember_fact"}

\* the step in which an executor stored what it was asked to and returned
StoredAndReturned(ops) ==
    /\ calls' = calls + 1 \/ frame' # frame
    /\ ret'.op \in ops
    /\ ret'.success
    /\ ret'.write = "ok"

\* C22: no step changes or removes a ChangeEvent, and the step in which a
\* weight log, a plan save or remember_fact stored its row and returned
\* success appends exactly one ChangeEvent, of that user.
C22_StateChangeIsAudited ==
    [][/\ Len(change_events') >= Len(change_events)
       /\ SubSeq(change_events', 1, Len(change_events)) = change_events
       /\ StoredAndReturned(AuditedOps) =>
            /\ Len(change_events') = Len(change_events) + 1
            /\ change_events'[Len(change_events')].user_id = ret'.user_id]_vars

\* every row of `old` is in `new` at its place, the columns `flags` apart,
\* and `new` has at most one row more
Retained(old, new, flags) ==
    /\ Len(new) \in {Len(old), Len(old) + 1}
    /\ \A i \in 1..Len(old) :
        /\ DOMAIN new[i] = DOMAIN old[i]
        /\ \A c \in DOMAIN old[i] \ flags : new[i][c] = old[i][c]

\* C23 as stated: no step changes any field of a stored training plan,
\* nutrition plan or goal row or removes the row; a save adds one row.
C23_VersionsAreNeverUpdated ==
    [][/\ Retained(training_plan_versions, training_plan_versions', {})
       /\ Retained(nutrition_plan_versions, nutrition_plan_versions', {})
       /\ Retained(goals, goals', {})]_vars

\* C23: no step removes a stored training plan, nutrition plan or goal row
\* or changes a field of it other than the is_current flag of a goal, which
\* a step may only clear; a save adds one row.
C23_VersionsAreRetained ==
    [][/\ Retained(training_plan_versions, training_plan_versions', {})
       /\ Retained(nutrition_plan_versions, nutrition_plan_versions', {})
       /\ Retained(goals, goals', {"is_current"})
       /\ \A i \in 1..Len(goals) : goals'[i].is_current => goals[i].is_current]_vars

\* two goals saved one after the other and a training plan: the older goal
\* is kept with its values and is no longer current
C23_Witness ==
    /\ Len(goals) = 2
    /\ goals[1].user_id = goals[2].user_id
    /\ goals[1].version = 1 /\ goals[2].version = 2
    /\ goals[1].target_weight_kg = 80 /\ goals[2].target_weight_kg = Null
    /\ ~goals[1].is_current /\ goals[2].is_current
    /\ Len(training_plan_versions) = 1

\* the name the USERS row of the user carries, "" with no row or no name
NameOfUser(user_id) ==
    LET user == Matching(users, [id |-> user_id])
    IN  IF user = <<>> THEN ""
        ELSE Or(Get(user[1], "firstName"),
                Or(Get(user[1], "first_name"), Or(Get(user[1], "username"), "")))

\* C24: the user_name of a context loaded with every read answered is the
\* name of the user's row if it has one, otherwise the value of the user's
\* fact "name" if the user had one when the turn began, otherwise "".
C24_DisplayNamePreference ==
    (turn.pc = "run" /\ turn.loaded = AllOk) =>
        LET facts == FactsOf(turn.before[7], turn.user_id, "name")
        IN  turn.ctx.user_name =
                IF NameOfUser(turn.user_id) # "" THEN NameOfUser(turn.user_id)
                ELSE IF facts # <<>> THEN facts[1].value
                ELSE ""

\* the users a step acts for: the user of the call that entered, went on or
\* returned in it
StepUsers ==
    {frame[w].user_id : w \in {o \in Workers : frame'[o] # frame[o] /\ frame[o].pc # "idle"}}
    \cup {frame'[w].user_id : w \in {o \in Workers : frame'[o] # frame[o] /\ frame'[o].pc # "idle"}}
    \cup (IF "user_id" \in DOMAIN ret' THEN {ret'.user_id} ELSE {})

\* the version a save of the user is to get from the user's own rows alone
OwnNextVersion(table, user_id) ==
    IF RowsOf(table, user_id) = {} THEN 1
    ELSE Max({table[i].version : i \in RowsOf(table, user_id)}) + 1

\* the table whose next version the call at `pc` has read
VersionedTable(pc) ==
    IF pc = "save_training_plan" THEN training_plan_versions
    ELSE IF pc = "save_nutrition_plan" THEN nutrition_plan_versions
    ELSE goals

\* C25: every step is a step of one user's call and leaves the rows of every
\* other user, in every table, as they were, is_current flags included; and
\* the version a save has read is the next one of the user's own rows,
\* whatever rows other users have.
C25_UsersAreIsolated ==
    [][/\ Cardinality(StepUsers) = 1
       /\ \A b \in Users \ StepUsers : \A k \in 1..Len(tables) :
            Matching(tables'[k], [user_id |-> b]) = Matching(tables[k], [user_id |-> b])
       /\ \A w \in Workers :
            (/\ "version" \in DOMAIN frame'[w]
             /\ "version" \notin DOMAIN frame[w]) =>
                frame'[w].version =
                    OwnNextVersion(VersionedTable(frame'[w].pc), frame'[w].user_id)]_vars

\* a save_goal of one user has returned while a save_goal of the other
\* user is in flight between its update and its insert: the first user's
\* row is current, and the call in flight is to insert version 1
C25_Witness ==
    /\ ret.op = "save_goal" /\ ret.success /\ ret.write = "ok"
    /\ Len(goals) = 1
    /\ goals[1].user_id = ret.user_id
    /\ goals[1].is_current
    /\ \E w \in Workers :
        /\ frame[w].pc = "save_goal_insert"
        /\ frame[w].user_id # ret.user_id
        /\ frame[w].version = 1

=============================================================================
